---- MODULE Spec2Model ----
(***************************************************************************)
(* Model of src/main.py: the Streamlit chat front-end over the hosted      *)
(* assistants API.  One user turn is Streamlit.streamlit() from the chat   *)
(* input to the append to the chat history; every remote call of the turn  *)
(* is one step, with its outcome (a record or an exception) chosen by the  *)
(* remote service.                                                         *)
(***************************************************************************)
EXTENDS Integers, Sequences, FiniteSets, TLC

VARIABLES
    session_state,  \* st.session_state: assistant_id, thread_id, messages
    manager,        \* the AssistantManager object of the current turn
    prompt,         \* the chat input of the current turn
    pc,             \* position of the turn inside streamlit()
    calls,          \* the remote client's calls (and sleeps) of the turn, in order
    slept,          \* seconds spent in sleep() during the turn
    remote,         \* number of assistants, threads and runs the service created
    loaded,         \* the ids the store held when the turn's manager was built
    totals,         \* per entity, over the session: create calls, failed lookups,
                    \* create calls that raised while the id was absent
    turns,          \* user turns started in this session
    listed,         \* messages.data of the turn's messages.list, newest first
    tabs            \* resolve() executions of other script runs on the same store

vars == <<session_state, manager, prompt, pc, calls, slept, remote, loaded,
          totals, turns, listed, tabs>>

\* ---------------------------------------------------------------- bounds
MaxTurns == 3
MaxPolls == 3
MaxResolves == 2

\* ------------------------------------------------------- values and inputs
None == "None"
NoTime == -1

sleep_interval == 1
timeout == 20

Prompts == {"Hello"}
MessageLists == {<<>>, <<"Hi there">>, <<"Hi there", "Earlier part">>}
Statuses == {"queued", "in_progress", "requires_action", "cancelled",
             "failed", "expired", "completed"}
CreatedAts == {0, 100}
CompletedAts == {0, 65, 101, 3700, 86401, 86500, 90165}
GmtimeModes == {"wraps", "raises"}

AssistantId(n) == "asst_" \o ToString(n)
ThreadId(n) == "thread_" \o ToString(n)
RunId(n) == "run_" \o ToString(n)

NoRun == [id |-> None, status |-> None, created_at |-> NoTime,
          completed_at |-> NoTime]

\* `if st.session_state["assistant_id"]:` is Python truthiness of None or a string
Truthy(v) == v \notin {None, ""}

Call(op, res) == [op |-> op, res |-> res]

CountOp(op) == Cardinality({i \in DOMAIN calls : calls[i].op = op})

CountCall(op, res) ==
    Cardinality({i \in DOMAIN calls : calls[i] = Call(op, res)})

\* ----------------------------------------------------------- time format
Pad2(n) == IF n < 10 THEN "0" \o ToString(n) ELSE ToString(n)

\* gmtime() that carries whole days into the hour field
gmtime_NoDayWrap(secs) ==
    [tm_hour |-> secs \div 3600,
     tm_min  |-> (secs \div 60) % 60,
     tm_sec  |-> secs % 60]

\* gmtime(): the broken-down UTC time of an epoch second; only the fields
\* that "%H:%M:%S" reads
gmtime(secs) ==
    [tm_hour |-> (secs \div 3600) % 24,
     tm_min  |-> (secs \div 60) % 60,
     tm_sec  |-> secs % 60]

strftime(tm) ==
    Pad2(tm.tm_hour) \o ":" \o Pad2(tm.tm_min) \o ":" \o Pad2(tm.tm_sec)

\* the subtraction with its operands swapped
elapsed_time_Reversed(run) == run.created_at - run.completed_at

\* elapsed_time = self.run.completed_at - self.run.created_at
elapsed_time(run) == run.completed_at - run.created_at

\* ------------------------------------------------------------------ Init
NewManager ==
    [assistant |-> None, thread |-> None, run |-> NoRun, run_id |-> None,
     response |-> None, runtime |-> None]

Entities == {"assistant", "thread"}

Tabs == {1, 2}

\* A script run that has not entered AssistantManager.__init__.
NoTab == [pc |-> "off", seen |-> [assistant_id |-> None, thread_id |-> None],
          assistant |-> None, thread |-> None, argument |-> None,
          pending |-> None, resolves |-> 0]

Init ==
    /\ session_state = [assistant_id |-> None, thread_id |-> None,
                        messages |-> <<>>]
    /\ manager = NewManager
    /\ prompt = None
    /\ pc = "idle"
    /\ calls = <<>>
    /\ slept = 0
    /\ remote = [assistants |-> 0, threads |-> 0, runs |-> 0]
    /\ loaded = [assistant_id |-> None, thread_id |-> None]
    /\ totals = [e \in Entities |->
                    [creates |-> 0, lookup_failed |-> 0, absent_raised |-> 0]]
    /\ turns = 0
    /\ listed = <<>>
    /\ tabs = [t \in Tabs |-> NoTab]

\* --------------------------------------------------------------- actions
\* The chat input delivers a prompt and streamlit() builds the manager.
StartTurn ==
    /\ pc \in {"idle", "done", "raised"}
    /\ turns < MaxTurns
    /\ \E p \in Prompts : prompt' = p
    /\ manager' = NewManager
    /\ calls' = <<>>
    /\ slept' = 0
    /\ loaded' = [assistant_id |-> session_state.assistant_id,
                  thread_id |-> session_state.thread_id]
    /\ turns' = turns + 1
    /\ pc' = "init_assistant"
    /\ listed' = <<>>
    /\ UNCHANGED <<session_state, remote, totals, tabs>>

\* a lookup whose result is ignored: create in every resolve()
AfterAssistantLookup_AlwaysCreate(ok) == "assistant_fallback"

\* a lookup failure that is re-raised to the caller
AfterAssistantLookup_Surfaced(ok) == IF ok THEN "init_thread" ELSE "raised"

\* a lookup failure that clears the stored id before the create call
StoreAfterAssistantLookup_Cleared(ok) ==
    IF ok THEN session_state ELSE [session_state EXCEPT !.assistant_id = None]

\* The store after the lookup of the assistant id: neither branch writes it.
StoreAfterAssistantLookup(ok) == session_state

\* Where __init__ goes after the lookup of the stored assistant id.
AfterAssistantLookup(ok) == IF ok THEN "init_thread" ELSE "assistant_fallback"

RetrieveAssistant ==
    /\ pc = "init_assistant"
    /\ Truthy(session_state.assistant_id)
    /\ \E ok \in BOOLEAN :
        /\ calls' = Append(calls, Call("assistants.retrieve",
                                       IF ok THEN "ok" ELSE "raise"))
        /\ manager' = IF ok
                      THEN [manager EXCEPT !.assistant = session_state.assistant_id]
                      ELSE manager
        /\ totals' = IF ok THEN totals
                     ELSE [totals EXCEPT !["assistant"].lookup_failed = @ + 1]
        /\ pc' = AfterAssistantLookup(ok)
        /\ session_state' = StoreAfterAssistantLookup(ok)
    /\ UNCHANGED <<prompt, slept, remote, loaded, turns>>
    /\ UNCHANGED <<listed, tabs>>

\* create_assistant() that forgets to write the id to the store
StoreAssistant_NotPersisted(id) == session_state

\* create_assistant() that writes the id only into a store without one
StoreAssistant_KeepExisting(id) ==
    IF Truthy(session_state.assistant_id) THEN session_state
    ELSE [session_state EXCEPT !.assistant_id = id]

\* The store after create_assistant() got the record with this id.
StoreAssistant(id) == [session_state EXCEPT !.assistant_id = id]

create_assistant ==
    /\ \/ pc = "assistant_fallback"
       \/ pc = "init_assistant" /\ ~Truthy(session_state.assistant_id)
    /\ \E ok \in BOOLEAN :
        /\ calls' = Append(calls, Call("assistants.create",
                                       IF ok THEN "ok" ELSE "raise"))
        /\ totals' = [totals EXCEPT
                        !["assistant"].creates = @ + 1,
                        !["assistant"].absent_raised =
                            IF ~ok /\ pc = "init_assistant" THEN @ + 1 ELSE @]
        /\ IF ok
           THEN /\ remote' = [remote EXCEPT !.assistants = @ + 1]
                /\ manager' = [manager EXCEPT
                                 !.assistant = AssistantId(remote.assistants + 1)]
                /\ session_state' = StoreAssistant(AssistantId(remote.assistants + 1))
                /\ pc' = "init_thread"
           ELSE /\ pc' = "raised"
                /\ UNCHANGED <<remote, manager, session_state>>
    /\ UNCHANGED <<prompt, slept, loaded, turns>>
    /\ UNCHANGED <<listed, tabs>>

\* a thread lookup whose result is ignored
AfterThreadLookup_AlwaysCreate(ok) == "thread_fallback"

\* The store after the lookup of the thread id: neither branch writes it.
StoreAfterThreadLookup(ok) == session_state

\* Where __init__ goes after the lookup of the stored thread id.
AfterThreadLookup(ok) == IF ok THEN "ask" ELSE "thread_fallback"

RetrieveThread ==
    /\ pc = "init_thread"
    /\ Truthy(session_state.thread_id)
    /\ \E ok \in BOOLEAN :
        /\ calls' = Append(calls, Call("threads.retrieve",
                                       IF ok THEN "ok" ELSE "raise"))
        /\ manager' = IF ok
                      THEN [manager EXCEPT !.thread = session_state.thread_id]
                      ELSE manager
        /\ totals' = IF ok THEN totals
                     ELSE [totals EXCEPT !["thread"].lookup_failed = @ + 1]
        /\ pc' = AfterThreadLookup(ok)
        /\ session_state' = StoreAfterThreadLookup(ok)
    /\ UNCHANGED <<prompt, slept, remote, loaded, turns>>
    /\ UNCHANGED <<listed, tabs>>

\* create_thread() that forgets to write the id to the store
StoreThread_NotPersisted(id) == session_state

\* The store after create_thread() got the record with this id.
StoreThread(id) == [session_state EXCEPT !.thread_id = id]

create_thread ==
    /\ \/ pc = "thread_fallback"
       \/ pc = "init_thread" /\ ~Truthy(session_state.thread_id)
    /\ \E ok \in BOOLEAN :
        /\ calls' = Append(calls, Call("threads.create",
                                       IF ok THEN "ok" ELSE "raise"))
        /\ totals' = [totals EXCEPT
                        !["thread"].creates = @ + 1,
                        !["thread"].absent_raised =
                            IF ~ok /\ pc = "init_thread" THEN @ + 1 ELSE @]
        /\ IF ok
           THEN /\ remote' = [remote EXCEPT !.threads = @ + 1]
                /\ manager' = [manager EXCEPT
                                 !.thread = ThreadId(remote.threads + 1)]
                /\ session_state' = StoreThread(ThreadId(remote.threads + 1))
                /\ pc' = "ask"
           ELSE /\ pc' = "raised"
                /\ UNCHANGED <<remote, manager, session_state>>
    /\ UNCHANGED <<prompt, slept, loaded, turns>>
    /\ UNCHANGED <<listed, tabs>>

\* ask_assistant() that swallows the exception of messages.create
AfterAsk_Swallowed(ok) == "run"

\* Where streamlit() goes after messages.create: the call is not guarded.
AfterAsk(ok) == IF ok THEN "run" ELSE "raised"

ask_assistant ==
    /\ pc = "ask"
    /\ \E ok \in BOOLEAN :
        /\ calls' = Append(calls, Call("messages.create",
                                       IF ok THEN "ok" ELSE "raise"))
        /\ pc' = AfterAsk(ok)
    /\ UNCHANGED <<session_state, manager, prompt, slept, remote, loaded,
                   totals, turns>>
    /\ UNCHANGED <<listed, tabs>>

run_assistant ==
    /\ pc = "run"
    /\ \E ok \in BOOLEAN, c \in CreatedAts :
        /\ calls' = Append(calls, Call("runs.create",
                                       IF ok THEN "ok" ELSE "raise"))
        /\ IF ok
           THEN /\ remote' = [remote EXCEPT !.runs = @ + 1]
                /\ manager' = [manager EXCEPT
                                 !.run = [id |-> RunId(remote.runs + 1),
                                          status |-> "queued",
                                          created_at |-> c,
                                          completed_at |-> NoTime],
                                 !.run_id = RunId(remote.runs + 1)]
                /\ pc' = "wait"
           ELSE /\ c = 0
                /\ pc' = "raised"
                /\ UNCHANGED <<remote, manager>>
    /\ UNCHANGED <<session_state, prompt, slept, loaded, totals, turns>>
    /\ UNCHANGED <<listed, tabs>>

\* a loop that gives up on the terminal states of a run
AfterStatus_TerminalStates(status) ==
    IF status = "completed" THEN "retrieve_response"
    ELSE IF status \in {"failed", "cancelled", "expired"} THEN "return"
    ELSE "wait"

\* Where the poll loop goes after a status fetch returned this status.
AfterStatus(status) ==
    IF status = "completed" THEN "retrieve_response" ELSE "wait"

\* a loop that sleeps before it looks at the status
PollCalls_SleepFirst(status) ==
    <<Call("runs.retrieve", "ok"), Call("sleep", "ok")>>

\* The calls of one loop iteration whose status fetch returned this status:
\* the fetch and, in the else branch, the sleep.
PollCalls(status) ==
    IF status = "completed"
    THEN <<Call("runs.retrieve", "ok")>>
    ELSE <<Call("runs.retrieve", "ok"), Call("sleep", "ok")>>

\* a loop that polls again after an exception
AfterFetchRaise_Retry == "wait"

\* Where the poll loop goes when the status fetch raised: the except breaks.
AfterFetchRaise == "return"

\* One iteration of the loop of wait_assistant(): the status fetch and,
\* for a run that is not completed, the sleep.
wait_assistant ==
    /\ pc = "wait"
    /\ CountOp("runs.retrieve") < MaxPolls
    /\ \/ /\ calls' = Append(calls, Call("runs.retrieve", "raise"))
          /\ pc' = AfterFetchRaise
          /\ UNCHANGED <<manager, slept>>
       \/ \E s \in Statuses, k \in CompletedAts :
            /\ s # "completed" => k = 0
            /\ manager' = [manager EXCEPT
                             !.run.status = s,
                             !.run.completed_at =
                                 IF s = "completed" THEN k ELSE NoTime]
            /\ pc' = AfterStatus(s)
            /\ calls' = calls \o PollCalls(s)
            /\ slept' = slept + sleep_interval *
                    Cardinality({i \in DOMAIN PollCalls(s) :
                                    PollCalls(s)[i].op = "sleep"})
    /\ UNCHANGED <<session_state, prompt, remote, loaded, totals, turns>>
    /\ UNCHANGED <<listed, tabs>>

\* retrieve_response() that reads the oldest message of the list
last_message_Oldest(data) == data[Len(data)]

\* last_message = messages.data[0]: IndexError on an empty list.
last_message(data) == data[1]

\* a retrieve_response() whose IndexError does not end the loop iteration
AfterList_ErrorIgnored(data) == "retrieve_runtime"

\* Where wait_assistant() goes after messages.list returned this list.
AfterList(data) == IF data = <<>> THEN "return" ELSE "retrieve_runtime"

\* retrieve_response(), called inside the try of wait_assistant(): a raising
\* messages.list and the IndexError of an empty list both end the loop.
retrieve_response ==
    /\ pc = "retrieve_response"
    /\ \/ /\ calls' = Append(calls, Call("messages.list", "raise"))
          /\ pc' = "return"
          /\ UNCHANGED <<manager, listed>>
       \/ \E data \in MessageLists :
            /\ calls' = Append(calls, Call("messages.list",
                                IF data = <<>> THEN "empty" ELSE "ok"))
            /\ listed' = data
            /\ manager' = IF data = <<>> THEN manager
                          ELSE [manager EXCEPT !.response = last_message(data)]
            /\ pc' = AfterList(data)
    /\ UNCHANGED <<session_state, prompt, slept, remote, loaded, totals, turns>>
    /\ UNCHANGED tabs

\* The runtime retrieve_runtime() computes from the run record.
formatted_elapsed_time(run) == strftime(gmtime(elapsed_time(run)))

\* retrieve_runtime(): gmtime() of a negative number of seconds is platform
\* dependent: it wraps into the day before the epoch or raises OSError, which
\* the except of wait_assistant() swallows.
retrieve_runtime ==
    /\ pc = "retrieve_runtime"
    /\ \E mode \in GmtimeModes :
        /\ elapsed_time(manager.run) >= 0 => mode = "wraps"
        /\ manager' = IF mode = "wraps"
                      THEN [manager EXCEPT
                              !.runtime = formatted_elapsed_time(manager.run)]
                      ELSE manager
    /\ pc' = "return"
    /\ UNCHANGED <<session_state, prompt, calls, slept, remote, loaded,
                   totals, turns>>
    /\ UNCHANGED <<listed, tabs>>

\* a history that skips the assistant entry of a turn without a response
TurnEntries_SkipEmptyReply(p, response) ==
    IF response = None
    THEN <<[role |-> "user", content |-> p]>>
    ELSE <<[role |-> "user", content |-> p],
           [role |-> "assistant", content |-> response]>>

\* The two entries streamlit() appends to the chat history for a turn.
TurnEntries(p, response) ==
    <<[role |-> "user", content |-> p],
      [role |-> "assistant", content |-> response]>>

\* return_response(), return_runtime() and the append to the chat history.
Render ==
    /\ pc = "return"
    /\ session_state' = [session_state EXCEPT !.messages =
                            @ \o TurnEntries(prompt, manager.response)]
    /\ pc' = "done"
    /\ UNCHANGED <<manager, prompt, calls, slept, remote, loaded, totals, turns>>
    /\ UNCHANGED <<listed, tabs>>

Next ==
    \/ StartTurn
    \/ RetrieveAssistant
    \/ create_assistant
    \/ RetrieveThread
    \/ create_thread
    \/ ask_assistant
    \/ run_assistant
    \/ wait_assistant
    \/ retrieve_response
    \/ retrieve_runtime
    \/ Render

Spec == Init /\ [][Next]_vars


\* ------------------------------------------- interleaved resolve() runs
\* AssistantManager.__init__ of script runs that share one st.session_state.
\* The test of the stored id, its second read as the argument of the lookup,
\* the return of the lookup, the service creating the record, and the return
\* of the create call with the write of the new id are separate steps of a
\* run, and nothing orders the steps of two runs.
MainIdle == UNCHANGED <<manager, prompt, pc, calls, slept, loaded, totals,
                        turns, listed>>

TabStart ==
    \E t \in Tabs :
        /\ tabs[t].pc \in {"off", "ask", "raised"}
        /\ tabs[t].resolves < MaxResolves
        /\ tabs' = [tabs EXCEPT ![t] =
                      [NoTab EXCEPT !.pc = "init_assistant",
                                    !.resolves = tabs[t].resolves + 1]]
        /\ UNCHANGED <<session_state, remote>>
        /\ MainIdle

\* The test of the stored assistant id finds one: the try block is entered.
TabFindAssistant ==
    \E t \in Tabs :
        /\ tabs[t].pc = "init_assistant"
        /\ Truthy(session_state.assistant_id)
        /\ tabs' = [tabs EXCEPT
                      ![t].seen.assistant_id = session_state.assistant_id,
                      ![t].pc = "assistant_found"]
        /\ UNCHANGED <<session_state, remote>>
        /\ MainIdle

\* The stored id is read a second time, as the argument of
\* assistants.retrieve, and the call is under way.
TabCallRetrieveAssistant ==
    \E t \in Tabs :
        /\ tabs[t].pc = "assistant_found"
        /\ tabs' = [tabs EXCEPT
                      ![t].argument = session_state.assistant_id,
                      ![t].pc = "assistant_lookup"]
        /\ UNCHANGED <<session_state, remote>>
        /\ MainIdle

\* assistants.retrieve returns the record of the id it was called with, or
\* raises.
TabRetrieveAssistant ==
    \E t \in Tabs, ok \in BOOLEAN :
        /\ tabs[t].pc = "assistant_lookup"
        /\ tabs' = [tabs EXCEPT
                      ![t].assistant = IF ok THEN tabs[t].argument ELSE @,
                      ![t].argument = None,
                      ![t].pc = AfterAssistantLookup(ok)]
        /\ session_state' = StoreAfterAssistantLookup(ok)
        /\ UNCHANGED remote
        /\ MainIdle

\* The else branch of the test of the stored id: create_assistant() is
\* entered and its remote call is under way.
TabEnterCreateAssistant ==
    \E t \in Tabs :
        /\ tabs[t].pc = "init_assistant"
        /\ ~Truthy(session_state.assistant_id)
        /\ tabs' = [tabs EXCEPT ![t].pc = "assistant_absent"]
        /\ UNCHANGED <<session_state, remote>>
        /\ MainIdle

\* The service handles assistants.create: it creates the record, whose
\* response is then on its way to the run, or the call raises.
TabCreateAssistant ==
    \E t \in Tabs, ok \in BOOLEAN :
        /\ tabs[t].pc \in {"assistant_absent", "assistant_fallback"}
        /\ IF ok
           THEN /\ remote' = [remote EXCEPT !.assistants = @ + 1]
                /\ tabs' = [tabs EXCEPT
                              ![t].pending = AssistantId(remote.assistants + 1),
                              ![t].pc = "assistant_created"]
           ELSE /\ tabs' = [tabs EXCEPT ![t].pc = "raised"]
                /\ UNCHANGED remote
        /\ UNCHANGED session_state
        /\ MainIdle

\* assistants.create returns: self.assistant is the record and its id is
\* written to the store.
TabStoreAssistant ==
    \E t \in Tabs :
        /\ tabs[t].pc = "assistant_created"
        /\ tabs' = [tabs EXCEPT ![t].assistant = tabs[t].pending,
                                ![t].pending = None,
                                ![t].pc = "init_thread"]
        /\ session_state' = StoreAssistant(tabs[t].pending)
        /\ UNCHANGED remote
        /\ MainIdle

\* The test of the stored thread id finds one: the try block is entered.
TabFindThread ==
    \E t \in Tabs :
        /\ tabs[t].pc = "init_thread"
        /\ Truthy(session_state.thread_id)
        /\ tabs' = [tabs EXCEPT
                      ![t].seen.thread_id = session_state.thread_id,
                      ![t].pc = "thread_found"]
        /\ UNCHANGED <<session_state, remote>>
        /\ MainIdle

\* The stored id is read a second time, as the argument of threads.retrieve,
\* and the call is under way.
TabCallRetrieveThread ==
    \E t \in Tabs :
        /\ tabs[t].pc = "thread_found"
        /\ tabs' = [tabs EXCEPT
                      ![t].argument = session_state.thread_id,
                      ![t].pc = "thread_lookup"]
        /\ UNCHANGED <<session_state, remote>>
        /\ MainIdle

\* threads.retrieve returns the record of the id it was called with, or
\* raises.
TabRetrieveThread ==
    \E t \in Tabs, ok \in BOOLEAN :
        /\ tabs[t].pc = "thread_lookup"
        /\ tabs' = [tabs EXCEPT
                      ![t].thread = IF ok THEN tabs[t].argument ELSE @,
                      ![t].argument = None,
                      ![t].pc = AfterThreadLookup(ok)]
        /\ session_state' = StoreAfterThreadLookup(ok)
        /\ UNCHANGED remote
        /\ MainIdle

TabEnterCreateThread ==
    \E t \in Tabs :
        /\ tabs[t].pc = "init_thread"
        /\ ~Truthy(session_state.thread_id)
        /\ tabs' = [tabs EXCEPT ![t].pc = "thread_absent"]
        /\ UNCHANGED <<session_state, remote>>
        /\ MainIdle

\* The service handles threads.create: it creates the record, whose response
\* is then on its way to the run, or the call raises.
TabCreateThread ==
    \E t \in Tabs, ok \in BOOLEAN :
        /\ tabs[t].pc \in {"thread_absent", "thread_fallback"}
        /\ IF ok
           THEN /\ remote' = [remote EXCEPT !.threads = @ + 1]
                /\ tabs' = [tabs EXCEPT
                              ![t].pending = ThreadId(remote.threads + 1),
                              ![t].pc = "thread_created"]
           ELSE /\ tabs' = [tabs EXCEPT ![t].pc = "raised"]
                /\ UNCHANGED remote
        /\ UNCHANGED session_state
        /\ MainIdle

\* threads.create returns: self.thread is the record and its id is written
\* to the store.
TabStoreThread ==
    \E t \in Tabs :
        /\ tabs[t].pc = "thread_created"
        /\ tabs' = [tabs EXCEPT ![t].thread = tabs[t].pending,
                                ![t].pending = None,
                                ![t].pc = "ask"]
        /\ session_state' = StoreThread(tabs[t].pending)
        /\ UNCHANGED remote
        /\ MainIdle

NextRace ==
    \/ TabStart
    \/ TabFindAssistant
    \/ TabCallRetrieveAssistant
    \/ TabRetrieveAssistant
    \/ TabEnterCreateAssistant
    \/ TabCreateAssistant
    \/ TabStoreAssistant
    \/ TabFindThread
    \/ TabCallRetrieveThread
    \/ TabRetrieveThread
    \/ TabEnterCreateThread
    \/ TabCreateThread
    \/ TabStoreThread

SpecRace == Init /\ [][NextRace]_vars

\* ---------------------------------------------------------------- claims
Last(s) == s[Len(s)]

ResolveOps == {"assistants.retrieve", "assistants.create",
               "threads.retrieve", "threads.create"}

\* __init__ of the turn's manager has returned normally.
ResolveReturned ==
    \/ pc \in {"ask", "run", "wait", "retrieve_response", "retrieve_runtime",
               "return", "done"}
    \/ pc = "raised" /\ Last(calls).op \in {"messages.create", "runs.create"}

\* wait_assistant() of the turn has returned.
WaitReturned == pc \in {"return", "done"}

\* C1: when the store held neither id at the start of resolve() and resolve()
\* has returned, its calls were exactly one assistants.create and one
\* threads.create, no lookup, and the store holds the ids of the two records
\* the service created last, which are the records the manager holds.
C1_NoIdsCreatesBoth ==
    (ResolveReturned /\ loaded.assistant_id = None /\ loaded.thread_id = None)
    => /\ SubSeq(calls, 1, 2) = <<Call("assistants.create", "ok"),
                                  Call("threads.create", "ok")>>
       /\ CountOp("assistants.create") = 1
       /\ CountOp("threads.create") = 1
       /\ CountOp("assistants.retrieve") = 0
       /\ CountOp("threads.retrieve") = 0
       /\ remote.assistants >= 1
       /\ remote.threads >= 1
       /\ session_state.assistant_id = AssistantId(remote.assistants)
       /\ session_state.thread_id = ThreadId(remote.threads)
       /\ manager.assistant = session_state.assistant_id
       /\ manager.thread = session_state.thread_id

C1_Witness ==
    /\ pc = "ask"
    /\ loaded.assistant_id = None
    /\ loaded.thread_id = None
    /\ session_state.assistant_id = "asst_1"
    /\ session_state.thread_id = "thread_1"

\* C2: when both stored ids were looked up successfully, resolve() made no
\* create call and the stored ids are the ids it found at its start.
C2_AcceptedIdsNoCreate ==
    (/\ ResolveReturned
     /\ CountCall("assistants.retrieve", "ok") = 1
     /\ CountCall("threads.retrieve", "ok") = 1)
    => /\ CountOp("assistants.create") = 0
       /\ CountOp("threads.create") = 0
       /\ Truthy(loaded.assistant_id)
       /\ Truthy(loaded.thread_id)
       /\ session_state.assistant_id = loaded.assistant_id
       /\ session_state.thread_id = loaded.thread_id
       /\ manager.assistant = loaded.assistant_id
       /\ manager.thread = loaded.thread_id
       /\ SubSeq(calls, 1, 2) = <<Call("assistants.retrieve", "ok"),
                                  Call("threads.retrieve", "ok")>>

C2_Witness ==
    /\ pc = "ask"
    /\ calls = <<Call("assistants.retrieve", "ok"),
                 Call("threads.retrieve", "ok")>>
    /\ session_state.assistant_id = loaded.assistant_id
    /\ session_state.thread_id = loaded.thread_id

\* C3: in one resolve() each entity is looked up at most once and created at
\* most once; a rejected assistant lookup is followed by exactly one
\* assistants.create whose id is stored; a failed lookup never ends the turn
\* (only a raising create does); and the thread id is then handled by the
\* same policy: looked up exactly when it was stored, and kept, with no
\* threads.create, when its lookup succeeds.
C3_RejectedAssistantHealed ==
    /\ \A op \in ResolveOps : CountOp(op) <= 1
    /\ \A i \in DOMAIN calls :
          calls[i] = Call("assistants.retrieve", "raise")
          => /\ i = 1
             /\ pc = "assistant_fallback" <=> Len(calls) = 1
             /\ Len(calls) > 1 => calls[2].op = "assistants.create"
             /\ Len(calls) > 1 /\ calls[2].res = "ok"
                => /\ session_state.assistant_id = AssistantId(remote.assistants)
                   /\ session_state.assistant_id # loaded.assistant_id
                   /\ manager.assistant = session_state.assistant_id
    /\ pc = "raised"
       => /\ Last(calls).res = "raise"
          /\ Last(calls).op \notin {"assistants.retrieve", "threads.retrieve"}
    /\ (ResolveReturned /\ CountCall("assistants.retrieve", "raise") = 1)
       => /\ CountOp("assistants.create") = 1
          /\ CountOp("threads.retrieve") = 1 <=> Truthy(loaded.thread_id)
          /\ CountCall("threads.retrieve", "ok") = 1
             => /\ CountOp("threads.create") = 0
                /\ session_state.thread_id = loaded.thread_id
          /\ CountCall("threads.retrieve", "ok") = 0
             => CountOp("threads.create") = 1

C3_Witness ==
    /\ pc = "ask"
    /\ calls = <<Call("assistants.retrieve", "raise"),
                 Call("assistants.create", "ok"),
                 Call("threads.retrieve", "ok")>>
    /\ session_state.assistant_id # loaded.assistant_id
    /\ session_state.thread_id = loaded.thread_id

Range(s) == {s[i] : i \in DOMAIN s}

\* The stored ids change only in a successful create call that follows the
\* absence of the id or a failed lookup of it in the same resolve().
StoredIdsStable ==
    /\ session_state'.assistant_id # session_state.assistant_id
       => /\ calls' = Append(calls, Call("assistants.create", "ok"))
          /\ \/ ~Truthy(session_state.assistant_id)
             \/ Call("assistants.retrieve", "raise") \in Range(calls)
    /\ session_state'.thread_id # session_state.thread_id
       => /\ calls' = Append(calls, Call("threads.create", "ok"))
          /\ \/ ~Truthy(session_state.thread_id)
             \/ Call("threads.retrieve", "raise") \in Range(calls)

StoredId(e) ==
    IF e = "assistant" THEN session_state.assistant_id
    ELSE session_state.thread_id

\* C4 as stated: a stored id changes only after a failed lookup, and after
\* every resolve() the create calls of an entity number one plus its failed
\* lookups.
C4_Original ==
    /\ [][StoredIdsStable]_vars
    /\ [](ResolveReturned
          => \A e \in Entities :
                totals[e].creates = 1 + totals[e].lookup_failed)

\* C4 amended: a stored id changes only in a create call that follows a
\* failed lookup of it, and the create calls of an entity number one for the
\* initial absence once an id is stored, plus one per failed lookup whose
\* fallback create has been called, plus one per create call that raised
\* while the id was still absent.
C4_IdsStableCreatesCounted ==
    /\ [][StoredIdsStable]_vars
    /\ [](\A e \in Entities :
            totals[e].creates =
                (IF Truthy(StoredId(e)) THEN 1 ELSE 0)
                + totals[e].lookup_failed
                - (IF pc = e \o "_fallback" THEN 1 ELSE 0)
                + totals[e].absent_raised)

C4_Witness ==
    /\ turns = 3
    /\ pc = "ask"
    /\ totals["assistant"].absent_raised = 1
    /\ totals["assistant"].lookup_failed = 1
    /\ totals["assistant"].creates = 3
    /\ session_state.assistant_id = "asst_2"
    /\ session_state.thread_id = "thread_1"

\* The calls of the poll loop: what follows runs.create in the turn's calls.
PollLog ==
    LET start == CHOOSE i \in DOMAIN calls : calls[i].op = "runs.create"
    IN  SubSeq(calls, start + 1, Len(calls))

\* N status fetches that returned, each but the last followed by one sleep.
PolledTimes(log, N) ==
    /\ Len(log) >= 2 * N - 1
    /\ \A k \in 1..N : log[2 * k - 1] = Call("runs.retrieve", "ok")
    /\ \A k \in 1..(N - 1) : log[2 * k] = Call("sleep", "ok")

NoFetchRaised == \A i \in DOMAIN calls : calls[i].op \in {"runs.retrieve", "messages.list"} => calls[i].res # "raise"

\* C5 as stated: when wait_assistant() has returned and no fetch raised, it
\* made N status fetches and N-1 sleeps of sleep_interval and the response
\* and the runtime are set.
C5_Original ==
    (WaitReturned /\ NoFetchRaised)
    => LET N == CountOp("runs.retrieve")
       IN  /\ N >= 1
           /\ PolledTimes(PollLog, N)
           /\ CountOp("sleep") = N - 1
           /\ slept = (N - 1) * sleep_interval
           /\ manager.response # None
           /\ manager.runtime # None

\* C5 amended: when wait_assistant() has returned and no fetch raised, it
\* made N status fetches, the last one "completed", and N-1 sleeps of
\* sleep_interval; the response is set exactly when messages.list returned a
\* message, the runtime is set only with the response, and always with it
\* when completed_at >= created_at.
C5_PollsUntilCompleted ==
    (WaitReturned /\ NoFetchRaised)
    => LET N == CountOp("runs.retrieve")
       IN  /\ N >= 1
           /\ PolledTimes(PollLog, N)
           /\ CountOp("sleep") = N - 1
           /\ slept = (N - 1) * sleep_interval
           /\ manager.run.status = "completed"
           /\ manager.response # None
              <=> Call("messages.list", "ok") \in Range(calls)
           /\ manager.runtime # None => manager.response # None
           /\ manager.response # None /\ elapsed_time(manager.run) >= 0
              => manager.runtime # None

C5_Witness ==
    /\ pc = "return"
    /\ NoFetchRaised
    /\ CountOp("runs.retrieve") = 3
    /\ CountOp("sleep") = 2
    /\ slept = 2
    /\ manager.response = "Hi there"
    /\ manager.runtime = "00:01:05"

\* C6: a status fetch that raised is the last call of the turn (no fetch and
\* no sleep after it), wait_assistant() has returned to streamlit() instead
\* of raising, and the response and the runtime are None.
C6_FetchRaiseEndsLoop ==
    \A i \in DOMAIN calls :
        calls[i] = Call("runs.retrieve", "raise")
        => /\ i = Len(calls)
           /\ WaitReturned
           /\ manager.response = None
           /\ manager.runtime = None

C6_Witness ==
    /\ pc = "return"
    /\ Last(calls) = Call("runs.retrieve", "raise")
    /\ CountOp("runs.retrieve") = 2
    /\ CountOp("sleep") = 1
    /\ manager.response = None
    /\ manager.runtime = None

\* One step of the poll loop: a fetch that returned a status other than
\* "completed" sleeps once and stays in the loop, changing neither response
\* nor runtime; the loop is left only by a fetch that raised or returned
\* "completed"; and what follows the completed fetch never polls again.
PollStep ==
    /\ pc = "wait"
       => LET fetched == calls'[Len(calls) + 1]
          IN  /\ fetched.op = "runs.retrieve"
              /\ (fetched.res = "ok" /\ manager'.run.status # "completed")
                 => /\ pc' = "wait"
                    /\ calls' = calls \o <<Call("runs.retrieve", "ok"),
                                            Call("sleep", "ok")>>
                    /\ slept' = slept + sleep_interval
                    /\ manager'.response = manager.response
                    /\ manager'.runtime = manager.runtime
              /\ pc' # "wait"
                 => \/ fetched.res = "raise" /\ pc' = "return"
                    \/ /\ fetched.res = "ok"
                       /\ manager'.run.status = "completed"
                       /\ pc' = "retrieve_response"
    /\ pc \in {"retrieve_response", "retrieve_runtime"}
       => pc' \in {"retrieve_runtime", "return"}

\* C7: every status other than "completed" is handled alike (sleep, poll
\* again), so the poll loop ends only by a fetch that returns "completed" or
\* raises.
C7_OnlyCompletedOrRaiseEnds == [][PollStep]_vars

C7_Witness ==
    /\ pc = "wait"
    /\ manager.run.status = "failed"
    /\ CountOp("runs.retrieve") = 2
    /\ CountOp("sleep") = 2
    /\ manager.response = None

\* C8: in the calls of a turn, messages.create comes after the resolve calls
\* with both ids stored, runs.create comes directly after a messages.create
\* that returned, every status fetch comes after a runs.create that returned,
\* and a messages.create that raised is the last call of a turn that raised.
C8_TurnCallOrder ==
    \A i \in DOMAIN calls :
        /\ calls[i].op = "messages.create"
           => /\ \A j \in 1..(i - 1) : calls[j].op \in ResolveOps
              /\ \A j \in (i + 1)..Len(calls) : calls[j].op \notin ResolveOps
              /\ Truthy(session_state.assistant_id)
              /\ Truthy(session_state.thread_id)
        /\ calls[i].op = "runs.create"
           => i > 1 /\ calls[i - 1] = Call("messages.create", "ok")
        /\ calls[i].op \in {"runs.retrieve", "sleep", "messages.list"}
           => \E j \in 1..(i - 1) : calls[j] = Call("runs.create", "ok")
        /\ calls[i] = Call("messages.create", "raise")
           => i = Len(calls) /\ pc = "raised"
        /\ calls[i] = Call("runs.create", "raise")
           => i = Len(calls) /\ pc = "raised"

C8_Witness ==
    /\ pc = "raised"
    /\ Last(calls) = Call("messages.create", "raise")
    /\ CountOp("runs.create") = 0
    /\ CountOp("runs.retrieve") = 0
    /\ manager.run = NoRun

Digit(d) == <<"0", "1", "2", "3", "4", "5", "6", "7", "8", "9">>[d + 1]

TwoDigits(n) == Digit(n \div 10) \o Digit(n % 10)

\* C9: for completed_at >= created_at the runtime is set by retrieve_runtime
\* and reads HH:MM:SS with hours = (elapsed div 3600) mod 24, minutes =
\* (elapsed div 60) mod 60, seconds = elapsed mod 60; 65 seconds read
\* "00:01:05" and a day or more wraps.
C9_RuntimeFormat ==
    LET created == manager.run.created_at
        completed == manager.run.completed_at
        elapsed == completed - created
    IN  (WaitReturned /\ manager.response # None /\ elapsed >= 0)
        => /\ manager.runtime =
                TwoDigits((elapsed \div 3600) % 24) \o ":" \o
                TwoDigits((elapsed \div 60) % 60) \o ":" \o
                TwoDigits(elapsed % 60)
           /\ created = 0 /\ completed = 65 => manager.runtime = "00:01:05"
           /\ elapsed = 3600 => manager.runtime = "01:00:00"
           /\ elapsed = 86400 => manager.runtime = "00:00:00"
           /\ elapsed = 90065 => manager.runtime = "01:01:05"
           /\ elapsed = 90165 => manager.runtime = "01:02:45"

C9_Witness ==
    /\ pc = "return"
    /\ manager.run.created_at = 100
    /\ manager.run.completed_at = 90165
    /\ manager.runtime = "01:01:05"

\* C10: when retrieve_runtime has run on a record with completed_at <
\* created_at, the runtime is "00:00:00".
C10_ClampNegative ==
    (/\ WaitReturned
     /\ manager.response # None
     /\ manager.run.completed_at < manager.run.created_at)
    => manager.runtime = "00:00:00"

\* A turn with prompt "Hello" whose run was reported "completed" on the
\* second status fetch and whose message list starts with "Hi there".
HelloScenario ==
    /\ WaitReturned
    /\ prompt = "Hello"
    /\ NoFetchRaised
    /\ CountOp("runs.retrieve") = 2
    /\ listed # <<>>
    /\ listed[1] = "Hi there"

\* C11 as stated: in the "Hello" scenario the response is "Hi there" and the
\* runtime is "00:00:0X" with X the poll interval.
C11_Original ==
    HelloScenario
    => /\ manager.response = "Hi there"
       /\ manager.runtime = "00:00:0" \o ToString(sleep_interval)

\* C11 amended: in the "Hello" scenario the response is "Hi there", the turn
\* slept one poll interval, and the runtime is the HH:MM:SS, modulo 24 hours,
\* of completed_at - created_at of the run record, or absent when that
\* difference is negative and gmtime rejects it: "00:00:01" for a difference
\* of 1 and of 86401, "00:01:05" for 65; the rendered turn appends "Hello"
\* and "Hi there".
C11_EndToEnd ==
    HelloScenario
    => LET elapsed == manager.run.completed_at - manager.run.created_at
           rendering == TwoDigits((elapsed \div 3600) % 24) \o ":" \o
                        TwoDigits((elapsed \div 60) % 60) \o ":" \o
                        TwoDigits(elapsed % 60)
       IN  /\ manager.response = "Hi there"
           /\ slept = sleep_interval
           /\ \/ manager.runtime = rendering
              \/ elapsed < 0 /\ manager.runtime = None
           /\ elapsed = 1 => manager.runtime = "00:00:01"
           /\ elapsed = 86401 => manager.runtime = "00:00:01"
           /\ elapsed = 65 => manager.runtime = "00:01:05"
           /\ pc = "done"
              => SubSeq(session_state.messages,
                        Len(session_state.messages) - 1,
                        Len(session_state.messages))
                 = <<[role |-> "user", content |-> "Hello"],
                     [role |-> "assistant", content |-> "Hi there"]>>

\* The "Hello" turn is rendered and its record reports completed_at one
\* second after created_at.
C11_Witness ==
    /\ pc = "done"
    /\ HelloScenario
    /\ manager.run.created_at = 100
    /\ manager.run.completed_at = 101
    /\ manager.response = "Hi there"
    /\ manager.runtime = "00:00:01"

\* C12 as stated: while the fallback create call is in progress the rejected
\* id has been cleared from the store.
C12_Original ==
    /\ pc = "assistant_fallback" => session_state.assistant_id = None
    /\ pc = "thread_fallback" => session_state.thread_id = None

\* What the store holds around a fallback create: the rejected id while the
\* create call is in progress and after it raised, the new id after it
\* returned.
RejectedIdKept ==
    /\ pc = "assistant_fallback"
       => /\ Truthy(session_state.assistant_id)
          /\ session_state.assistant_id = loaded.assistant_id
    /\ pc = "thread_fallback"
       => /\ Truthy(session_state.thread_id)
          /\ session_state.thread_id = loaded.thread_id
    /\ \A i \in DOMAIN calls :
          /\ (calls[i] = Call("assistants.retrieve", "raise") /\ Len(calls) > i)
             => IF calls[i + 1] = Call("assistants.create", "ok")
                THEN /\ session_state.assistant_id # loaded.assistant_id
                     /\ session_state.assistant_id = AssistantId(remote.assistants)
                ELSE /\ calls[i + 1] = Call("assistants.create", "raise")
                     /\ session_state.assistant_id = loaded.assistant_id
                     /\ pc = "raised"
          /\ (calls[i] = Call("threads.retrieve", "raise") /\ Len(calls) > i)
             => IF calls[i + 1] = Call("threads.create", "ok")
                THEN /\ session_state.thread_id # loaded.thread_id
                     /\ session_state.thread_id = ThreadId(remote.threads)
                ELSE /\ calls[i + 1] = Call("threads.create", "raise")
                     /\ session_state.thread_id = loaded.thread_id
                     /\ pc = "raised"

\* No step sets a stored id to absent.
NeverCleared ==
    /\ Truthy(session_state.assistant_id) => Truthy(session_state'.assistant_id)
    /\ Truthy(session_state.thread_id) => Truthy(session_state'.thread_id)

\* C12 amended: after a failed lookup the stored id is left as it is: the
\* rejected id is in the store while the create call is in progress, is
\* overwritten by the new id when the create call returns, stays stored when
\* the create call raises, and no step ever sets a stored id to absent.
C12_RejectedIdKeptUntilReplaced == []RejectedIdKept /\ [][NeverCleared]_vars

C12_Witness ==
    /\ pc = "assistant_fallback"
    /\ Last(calls) = Call("assistants.retrieve", "raise")
    /\ loaded.assistant_id = "asst_1"
    /\ session_state.assistant_id = "asst_1"

\* C13: messages.list is called once, right after the status fetch that
\* returned "completed"; when it returned messages the response is the text
\* of the first of them; when it returned an empty list (or raised) the poll
\* loop has ended with response and runtime None.
C13_FirstMessageOrFail ==
    /\ CountOp("messages.list") <= 1
    /\ CountOp("messages.list") = 0 => listed = <<>>
    /\ \A i \in DOMAIN calls :
          calls[i].op = "messages.list"
          => /\ i = Len(calls)
             /\ calls[i - 1] = Call("runs.retrieve", "ok")
             /\ manager.run.status = "completed"
             /\ manager.run.id = manager.run_id
             /\ calls[i].res = "ok"
                => /\ listed # <<>>
                   /\ manager.response = listed[1]
                   /\ pc \in {"retrieve_runtime", "return", "done"}
             /\ calls[i].res \in {"empty", "raise"}
                => /\ listed = <<>>
                   /\ WaitReturned
                   /\ manager.response = None
                   /\ manager.runtime = None

C13_Witness ==
    /\ pc = "return"
    /\ Last(calls) = Call("messages.list", "empty")
    /\ listed = <<>>
    /\ manager.run.status = "completed"
    /\ manager.response = None
    /\ manager.runtime = None

\* Two runs that both found the id absent and both got a record created.
BothCreated(t, u) ==
    /\ t # u
    /\ tabs[t].seen.assistant_id = None
    /\ tabs[u].seen.assistant_id = None
    /\ tabs[t].assistant # None
    /\ tabs[u].assistant # None

AssistantIds == {AssistantId(k) : k \in 1..remote.assistants}

ThreadIds == {ThreadId(k) : k \in 1..remote.threads}

\* The store and the records under interleaved runs: the stored id is absent
\* exactly while no run has written one, and is otherwise the id of some
\* created record, not necessarily the newest; every returned or pending
\* create has its own record; and two runs that both found the id absent and
\* both created hold different assistants, of which the store names one.
NoMutualExclusion ==
    /\ session_state.assistant_id \in AssistantIds \cup {None}
    /\ session_state.thread_id \in ThreadIds \cup {None}
    /\ session_state.assistant_id = None
       => \A t \in Tabs : tabs[t].assistant = None
    /\ \A t \in Tabs :
          /\ tabs[t].pc = "assistant_created" => tabs[t].pending \in AssistantIds
          /\ tabs[t].pc = "thread_created" => tabs[t].pending \in ThreadIds
          /\ tabs[t].pc = "assistant_lookup" => tabs[t].argument \in AssistantIds
          /\ tabs[t].pc = "thread_lookup" => tabs[t].argument \in ThreadIds
          /\ tabs[t].pc \in {"init_thread", "thread_found", "thread_lookup",
                             "thread_absent", "thread_fallback",
                             "thread_created", "ask"}
             => tabs[t].assistant \in AssistantIds
          /\ tabs[t].pc = "ask" => tabs[t].thread \in ThreadIds
    /\ \A t, u \in Tabs :
          BothCreated(t, u)
          => /\ tabs[t].assistant # tabs[u].assistant
             /\ remote.assistants >= 2
             /\ session_state.assistant_id \in AssistantIds
             /\ \/ session_state.assistant_id # tabs[t].assistant
                \/ session_state.assistant_id # tabs[u].assistant

\* The write of a returned create call is unconditional: whatever the store
\* holds by then, it holds this run's new id afterwards, and no other step
\* changes a stored id.
WriteOverwrites ==
    /\ \A t \in Tabs :
          /\ (tabs[t].pc = "assistant_created" /\ tabs'[t].pc # tabs[t].pc)
             => /\ session_state'.assistant_id = tabs[t].pending
                /\ tabs'[t].assistant = tabs[t].pending
                /\ remote' = remote
          /\ (tabs[t].pc = "thread_created" /\ tabs'[t].pc # tabs[t].pc)
             => /\ session_state'.thread_id = tabs[t].pending
                /\ tabs'[t].thread = tabs[t].pending
                /\ remote' = remote
    /\ session_state'.assistant_id # session_state.assistant_id
       => \E t \in Tabs : tabs[t].pc = "assistant_created"
                          /\ tabs'[t].pc = "init_thread"
    /\ session_state'.thread_id # session_state.thread_id
       => \E t \in Tabs : tabs[t].pc = "thread_created" /\ tabs'[t].pc = "ask"

\* C14: with interleaved resolve() runs on one store nothing orders the test
\* of the stored id, the creation of the record and the write of its id: two
\* runs that both found the id absent both create, the records are distinct,
\* and each returned create overwrites the store, which ends up naming only
\* the id written last.
C14_LastWriterWins == []NoMutualExclusion /\ [][WriteOverwrites]_vars

\* Two assistants and two threads exist, both runs found both ids absent, and
\* the store names the ids written last: the older assistant, whose response
\* arrived after the newer one's, and the newer thread.
C14_Witness ==
    /\ \A t \in Tabs :
          /\ tabs[t].pc = "ask"
          /\ tabs[t].resolves = 1
          /\ tabs[t].seen = [assistant_id |-> None, thread_id |-> None]
    /\ remote.assistants = 2
    /\ remote.threads = 2
    /\ tabs[1].assistant = "asst_1"
    /\ tabs[2].assistant = "asst_2"
    /\ tabs[1].thread = "thread_1"
    /\ tabs[2].thread = "thread_2"
    /\ session_state.assistant_id = "asst_1"
    /\ session_state.thread_id = "thread_2"

RunOps == {"messages.create", "runs.create", "runs.retrieve", "messages.list"}

\* C15: when __init__ has returned, both stored ids are present and are the
\* ids of the records the manager holds, so every message post, run creation,
\* status fetch and message list of the turn was called with present ids; and
\* a turn that raised inside __init__ raised in a create call.
C15_ResolvedIdsPresent ==
    /\ ResolveReturned
       => /\ Truthy(session_state.assistant_id)
          /\ Truthy(session_state.thread_id)
          /\ manager.assistant = session_state.assistant_id
          /\ manager.thread = session_state.thread_id
    /\ \A i \in DOMAIN calls :
          calls[i].op \in RunOps
          => /\ ResolveReturned
             /\ Truthy(session_state.assistant_id)
             /\ Truthy(session_state.thread_id)
    /\ (pc = "raised" /\ ~ResolveReturned)
       => /\ Last(calls) \in {Call("assistants.create", "raise"),
                              Call("threads.create", "raise")}
          /\ \A i \in DOMAIN calls : calls[i].op \in ResolveOps
    /\ pc \in {"init_assistant", "assistant_fallback", "init_thread",
               "thread_fallback"}
       => \A i \in DOMAIN calls : calls[i].op \in ResolveOps

C15_Witness ==
    /\ pc = "wait"
    /\ calls = <<Call("assistants.retrieve", "ok"),
                 Call("threads.retrieve", "raise"),
                 Call("threads.create", "ok"),
                 Call("messages.create", "ok"),
                 Call("runs.create", "ok")>>
    /\ manager.assistant = session_state.assistant_id
    /\ manager.thread = session_state.thread_id
    /\ session_state.thread_id = "thread_2"

\* Response and runtime in a state: the runtime is set only with the
\* response, both only after a status fetch returned "completed", and a
\* returned wait_assistant() that never saw "completed" left both None.
ResultAfterCompleted ==
    /\ manager.runtime # None => manager.response # None
    /\ manager.response # None
       => /\ manager.run.status = "completed"
          /\ CountCall("runs.retrieve", "ok") >= 1
          /\ Call("messages.list", "ok") \in Range(calls)
    /\ (WaitReturned /\ manager.run.status # "completed")
       => /\ manager.response = None
          /\ manager.runtime = None
    /\ ~ResolveReturned
       => /\ manager.response = None
          /\ manager.runtime = None

\* The response is written before the runtime, each once, in different steps.
ResponseBeforeRuntime ==
    /\ manager'.runtime # manager.runtime
       => /\ manager.runtime = None \/ manager' = NewManager
          /\ manager' # NewManager
             => /\ manager.response # None
                /\ manager'.response = manager.response
    /\ manager'.response # manager.response
       => /\ manager.response = None \/ manager' = NewManager
          /\ manager' # NewManager
             => /\ manager.runtime = None
                /\ manager'.runtime = None
                /\ manager.run.status = "completed"

\* C16: within a turn the response and the runtime are set only after a
\* status fetch returned "completed", the response first: a set runtime
\* implies a set response, and a turn whose poll loop ended without
\* "completed" returns None for both.
C16_ResponseThenRuntime == []ResultAfterCompleted /\ [][ResponseBeforeRuntime]_vars

C16_Witness ==
    /\ pc = "retrieve_runtime"
    /\ manager.run.status = "completed"
    /\ CountOp("runs.retrieve") = 2
    /\ manager.response = "Hi there"
    /\ manager.runtime = None

\* The chat history in a state: user and assistant entries alternate, two per
\* rendered turn, and the rendered turn's entries are its prompt and response.
HistoryAlternates ==
    LET messages == session_state.messages
    IN  /\ Len(messages) % 2 = 0
        /\ Len(messages) <= 2 * turns
        /\ \A i \in DOMAIN messages :
              messages[i].role = IF i % 2 = 1 THEN "user" ELSE "assistant"
        /\ pc = "done"
           => /\ Len(messages) >= 2
              /\ messages[Len(messages) - 1] =
                    [role |-> "user", content |-> prompt]
              /\ messages[Len(messages)] =
                    [role |-> "assistant", content |-> manager.response]

\* The history changes only at the end of a turn that got past
\* wait_assistant(), by exactly one user and one assistant entry; a step that
\* raises appends nothing.
HistoryStep ==
    LET messages == session_state.messages
    IN  /\ session_state'.messages # messages
           => /\ pc = "return"
              /\ pc' = "done"
              /\ session_state'.messages =
                    messages \o <<[role |-> "user", content |-> prompt],
                                  [role |-> "assistant",
                                   content |-> manager.response]>>
        /\ (pc = "return" /\ pc' # pc)
           => Len(session_state'.messages) = Len(messages) + 2
        /\ pc' = "raised" => session_state'.messages = messages

\* C17: the chat history has even length with roles alternating user,
\* assistant; a turn that gets past wait_assistant() appends exactly its user
\* entry and its assistant entry, with content None when the poll loop
\* failed; a turn that raised appends nothing.
C17_HistoryPairs == []HistoryAlternates /\ [][HistoryStep]_vars

C17_Witness ==
    /\ pc = "done"
    /\ Last(calls) = Call("runs.retrieve", "raise")
    /\ Len(session_state.messages) = 4
    /\ Last(session_state.messages) = [role |-> "assistant", content |-> None]
    /\ session_state.messages[3] = [role |-> "user", content |-> "Hello"]
    /\ session_state.messages[2] = [role |-> "assistant", content |-> "Hi there"]

TypeOK ==
    /\ pc \in {"idle", "init_assistant", "assistant_fallback", "init_thread",
               "thread_fallback", "ask", "run", "wait", "retrieve_response",
               "retrieve_runtime", "return", "done", "raised"}
    /\ turns \in 0..MaxTurns
====
